---- MODULE Spec2Model ----
(***************************************************************************)
(* Model of the laptop_selector crawler (src/src/bin/laptop_scrapper.rs).  *)
(*                                                                         *)
(* The crawl part models `parse` and `main`: every task is one call of     *)
(* `parse`, its position (pc) is the await it is suspended at, the         *)
(* semaphore is a counter of permits, the laptop table is a partial        *)
(* function from id to row, and the web site (listing pages, detail pages, *)
(* API pages) is input chosen in Init and fixed for the whole behaviour.   *)
(* `main` as written (line 639-645) starts the API variant of the root     *)
(* task; the listing variant RozetkaLaptopList(true, ..) of `parse`        *)
(* (line 25-27, 327) takes the same arguments, and rootKind chooses which  *)
(* of the two variants of `parse` is the root of the run.                  *)
(***************************************************************************)
EXTENDS Integers, Sequences, FiniteSets, TLC

VARIABLES
    tasks,      \* the calls of parse spawned in this run, by task id
    store,      \* table laptop: id -> row
    laptops,    \* the Vec<LaptopView> loaded by get_laptops at main:637
    prevStore,  \* table laptop when the previous run of the process ended
    permits,    \* available permits of the semaphore
    limit,      \* the number the semaphore was created with
    site,       \* page number -> the listings the page shows, in order
    detailText, \* id -> composition text the product page shows
    rootKind,   \* which variant of parse is the root task
    run,        \* number of the current run of the process
    main_pc,    \* position of main
    nFail,      \* failures (errors, panics) injected so far
    matcher,    \* SkimMatcherV2::fuzzy_match as a table
    cpuTable,   \* table cpu, in the order get_cpus reads it
    gpuTable,   \* table gpu, in the order get_gpus reads it
    main_cpus,  \* cpus of main, the Vec<Cpu> every task of the crawl is given
    main_gpus,  \* gpus of main
    requests,   \* the requests the api task has sent to the catalog API
    fin,        \* input of the pure function under check
    fout        \* its output

vars == <<tasks, store, laptops, prevStore, permits, limit, site,
          detailText, rootKind, run, main_pc, nFail, matcher, cpuTable,
          gpuTable, main_cpus, main_gpus, requests, fin, fout>>

(***************************************************************************)
(* Bounds                                                                  *)
(***************************************************************************)
MaxPages == 2
MaxListings == 2
MaxId == 2
MaxPool == 2
MaxRuns == 2
MaxFailures == 1

Ids == 1..MaxId

\* composition column not set
NULL == <<"NULL">>
\* Option<i64>::None of fuzzy_match; Some(s) is <<s>>
None == <<>>

\* composition texts the pages of the crawl model show: none, or a
\* processor and a graphics adapter
Comps == {<<>>, <<"c", "/", "g">>}

(***************************************************************************)
(* Composition -> devices (line 383, 140-145, 509)                         *)
(***************************************************************************)
\* F applied to the value of x, which is computed once
With(x, F(_)) == CHOOSE v \in {F(y) : y \in {x}} : TRUE

RECURSIVE SplitOn(_, _, _, _)
\* str::split(sep): the segments between separators, in order; the empty
\* text gives one empty segment
SplitOn(s, sep, k, cur) ==
    IF k > Len(s) THEN <<cur>>
    ELSE IF s[k] = sep THEN <<cur>> \o SplitOn(s, sep, k + 1, <<>>)
    ELSE SplitOn(s, sep, k + 1, Append(cur, s[k]))

split(s, sep) == SplitOn(s, sep, 1, <<>>)

\* device.split('(').next().unwrap()
BeforeParen(device) == split(device, "(")[1]

IsSpace(c) == c = " "

RECURSIVE TrimStart(_)
TrimStart(s) ==
    IF s # <<>> /\ IsSpace(s[1]) THEN TrimStart(Tail(s)) ELSE s

RECURSIVE TrimEnd(_)
TrimEnd(s) ==
    IF s # <<>> /\ IsSpace(s[Len(s)]) THEN TrimEnd(SubSeq(s, 1, Len(s) - 1)) ELSE s

\* str::trim
trim(s) == TrimEnd(TrimStart(s))

\* the chain without its last map, str::trim
NoTrimDevice(segment) == BeforeParen(BeforeParen(segment))

\* one element of the map chain of line 383
Device(segment) ==
    With(BeforeParen(BeforeParen(segment)), LAMBDA device : trim(device))

Devices(composition) ==
    With(split(composition, "/"),
         LAMBDA segments : [k \in 1..Len(segments) |-> Device(segments[k])])

(***************************************************************************)
(* get_best_match (line 33-48)                                             *)
(***************************************************************************)
\* matcher.fuzzy_match(device, &cpu.name): the crate's result, read from
\* the table the behaviour fixes
fuzzy_match(device, name) == matcher[<<device, name>>]

\* the comparison, were it not strict
ScoreBeatsOrTies(score, best_score) == score >= best_score

\* line 40
ScoreBeats(score, best_score) == score > best_score

RECURSIVE DeviceLoop(_, _, _, _, _)
\* line 38-45: the inner loop for the component at `index`
DeviceLoop(devices, j, index, name, acc) ==
    IF j > Len(devices) THEN acc
    ELSE LET m == fuzzy_match(devices[j], name)
             next == IF m # None /\ ScoreBeats(m[1], acc.best_score)
                     THEN [best_score |-> m[1], cpu_index |-> index]
                     ELSE acc
         IN With(next, LAMBDA a : DeviceLoop(devices, j + 1, index, name, a))

RECURSIVE CpuLoop(_, _, _, _)
\* line 37: the outer loop; index counts from 0 as enumerate() does
CpuLoop(devices, cpus, index, acc) ==
    IF index >= Len(cpus) THEN acc
    ELSE With(DeviceLoop(devices, 1, index, cpus[index + 1].name, acc),
              LAMBDA a : CpuLoop(devices, cpus, index + 1, a))

get_best_match(devices, cpus) ==
    CpuLoop(devices, cpus, 0, [best_score |-> 0, cpu_index |-> 0]).cpu_index

(***************************************************************************)
(* The catalogs after a complete dump: get_cpus / get_gpus order by id,    *)
(* the benchmark tasks insert the id 0 row first (line 243-247, 289-293)   *)
(* and then the rows of the benchmark page                                 *)
(***************************************************************************)
Cpus == <<[id |-> 0, name |-> "Unknown cpu"], [id |-> 5, name |-> "c"]>>
Gpus == <<[id |-> 0, name |-> "Unknown gpu"], [id |-> 7, name |-> "g"]>>

\* the crate's answers on the crawl model's devices (the device is the
\* text searched, the component name the pattern): a name found in the
\* device scores above zero, a name that is not a subsequence of the device
\* gives None
SkimTable ==
    [p \in {<<>>, <<"c">>, <<"g">>} \X {"Unknown cpu", "c", "Unknown gpu", "g"} |->
        IF p[1] = <<p[2]>> THEN <<16>> ELSE None]

(***************************************************************************)
(* The price of a listing: the digits of the text of the price element     *)
(* (line 366-374), the integer of the "price" member (line 123)            *)
(***************************************************************************)
DigitValue ==
    [c \in {"0", "1", "2", "3", "4", "5", "6", "7", "8", "9"} |->
        CASE c = "0" -> 0 [] c = "1" -> 1 [] c = "2" -> 2 [] c = "3" -> 3
          [] c = "4" -> 4 [] c = "5" -> 5 [] c = "6" -> 6 [] c = "7" -> 7
          [] c = "8" -> 8 [] OTHER -> 9]

\* char::is_ascii_digit
is_ascii_digit(c) == c \in DOMAIN DigitValue

\* the text as it is, no character removed
NoFilter(text) == text

\* .chars().filter(char::is_ascii_digit).collect::<String>()
DigitsOf(text) == SelectSeq(text, is_ascii_digit)

RECURSIVE DecimalValue(_, _)
\* the digits read from the left, the value so far in acc
DecimalValue(digits, acc) ==
    IF digits = <<>> THEN acc
    ELSE DecimalValue(Tail(digits), 10 * acc + DigitValue[Head(digits)])

\* Result<i64, ParseIntError>
ParseErr == [ok |-> FALSE, value |-> 0]

\* str::parse::<i64> of a text without sign: an error on the empty text and
\* on a character that is no digit (the texts of the model are too short
\* to pass i64::MAX)
parse_i64(text) ==
    IF text = <<>> \/ \E k \in DOMAIN text : ~is_ascii_digit(text[k])
    THEN ParseErr
    ELSE [ok |-> TRUE, value |-> DecimalValue(text, 0)]

\* line 366-374, before the `?`
Price(text) == parse_i64(DigitsOf(text))

\* a price that is taken as it comes, an unreadable one as 0
PriceDefaults(text) == TRUE

\* the `?` of line 374 lets the turn go on
PriceParses(text) == Price(text).ok

\* serde_json Value::as_i64 of the "price" member, the member written as
\* the model writes a text: Some for a number, None for any other value
as_i64(value) == parse_i64(value)

\* the texts of the price element, and the values of the "price" member,
\* that the site shows
PriceTexts == {<<"2", "9">>, <<"hryvnia">>}

(***************************************************************************)
(* Table laptop and the two statements that write it                       *)
(***************************************************************************)
Enriched(row) == row.composition # NULL /\ row.composition # <<>>

Put(st, id, row) ==
    [x \in DOMAIN st \cup {id} |-> IF x = id THEN row ELSE st[x]]

\* INSERT .. ON CONFLICT(id) DO UPDATE SET image, description, url, price,
\* cpu_id, gpu_id (line 154-183, 389-417)
UpsertNoComposition(st, id, r) ==
    IF id \in DOMAIN st
    THEN Put(st, id, [st[id] EXCEPT !.image = r.image,
                                    !.description = r.description,
                                    !.url = r.url,
                                    !.price = r.price,
                                    !.cpu_id = r.cpu_id,
                                    !.gpu_id = r.gpu_id])
    ELSE Put(st, id, [image |-> r.image, description |-> r.description,
                      composition |-> NULL, url |-> r.url, price |-> r.price,
                      cpu_id |-> r.cpu_id, gpu_id |-> r.gpu_id])

\* the statement, were it INSERT OR IGNORE: a stored row is kept
InsertOrIgnore(st, id, r) ==
    IF id \in DOMAIN st THEN st
    ELSE Put(st, id, [image |-> r.image, description |-> r.description,
                      composition |-> r.composition, url |-> r.url,
                      price |-> r.price, cpu_id |-> r.cpu_id, gpu_id |-> r.gpu_id])

\* INSERT OR REPLACE (line 185-207, 445-466, 513-534)
InsertOrReplace(st, id, r) ==
    Put(st, id, [image |-> r.image, description |-> r.description,
                 composition |-> r.composition, url |-> r.url,
                 price |-> r.price, cpu_id |-> r.cpu_id, gpu_id |-> r.gpu_id])

\* the index, were it bound to the statement in place of the id
IndexAsId(catalog, index) == index

\* line 384, 412: &cpus[index], of which cpu.id is bound to the statement
IdAt(catalog, index) == catalog[index + 1].id

\* line 383-385: the component ids resolved from a composition
Resolved(composition) ==
    With(Devices(composition),
         LAMBDA devices :
             [cpu_id |-> IdAt(main_cpus, get_best_match(devices, main_cpus)),
              gpu_id |-> IdAt(main_gpus, get_best_match(devices, main_gpus))])

\* the listings page p shows
PageOf(p) == site[p]

RECURSIVE HighestPage(_)
HighestPage(p) ==
    IF p = 0 \/ site[p] # <<>> THEN p ELSE HighestPage(p - 1)

\* the number of the last page of the site, which the API reports as
\* total_pages (line 110)
LastPage == HighestPage(MaxPages)

\* the page numbers of the a.pagination__link elements of the root page,
\* in document order (line 470, 473-474)
PaginationLinks == [k \in 1..LastPage |-> k]

\* a scan that takes the number of the first link
FirstLink(pages) == IF pages = <<>> THEN 0 ELSE pages[1]

\* line 472-479: the loop over the links, at link k with the running maximum
RECURSIVE PagesLoop(_, _, _)
PagesLoop(pages, k, max) ==
    IF k > Len(pages) THEN max
    ELSE PagesLoop(pages, k + 1, IF pages[k] > max THEN pages[k] ELSE max)

\* line 471-479
max_page(pages) == PagesLoop(pages, 1, 0)

\* the fields read from the element at position i of page p (line 339-380,
\* 120-138): every element carries its own image and title, the price is
\* the number its price text shows
Extract(p, i) ==
    LET l == PageOf(p)[i]
    IN [id |-> l.id, image |-> 10 * p + i, description |-> 10 * p + i,
        price |-> DecimalValue(DigitsOf(l.price), 0), url |-> l.id,
        composition |-> l.composition]

\* the price of the listing task t is at: parsed at line 366-374 by a list
\* task, unwrapped at line 123 by the api task
PriceRead(t) ==
    IF tasks[t].kind = "list"
    THEN PriceParses(PageOf(tasks[t].page)[tasks[t].i].price)
    ELSE as_i64(PageOf(tasks[t].page)[tasks[t].i].price).ok

WithIds(r, composition) ==
    With(Resolved(composition),
         LAMBDA ids : [image |-> r.image, description |-> r.description,
                       composition |-> composition, url |-> r.url,
                       price |-> r.price,
                       cpu_id |-> ids.cpu_id, gpu_id |-> ids.gpu_id])

(***************************************************************************)
(* Tasks                                                                   *)
(***************************************************************************)
NoLaptop == [id |-> 0, image |-> 0, description |-> 0, price |-> 0, url |-> 0]

\* a call of parse, as spawned: waiting for a permit (line 222)
NewTask(kind, parent, page, flag, lap) ==
    [kind |-> kind, parent |-> parent, pc |-> "acquire", page |-> page,
     i |-> 1, spawn_from_paginator |-> flag, laptop |-> lap,
     res |-> "none", joined |-> FALSE, permit |-> FALSE, sess |-> "none",
     abort |-> FALSE]

Running(t) == t \in DOMAIN tasks /\ tasks[t].res = "none" /\ ~tasks[t].abort

Children(ts, t) == {c \in DOMAIN ts : ts[c].parent = t}

\* dropping a JoinSet aborts the tasks still in it
DropJoinSet(ts, t) ==
    [c \in DOMAIN ts |->
        IF ts[c].parent = t /\ ts[c].res = "none"
        THEN [ts[c] EXCEPT !.abort = TRUE] ELSE ts[c]]

\* a permit that is not given back when its holder ends
Leaked(t) == 0

\* the permit of task t, dropped with it: what the semaphore gets back
Released(t) == IF tasks[t].permit THEN 1 ELSE 0

CrawlFixed ==
    UNCHANGED <<limit, site, detailText, rootKind, matcher, cpuTable, gpuTable,
                main_cpus, main_gpus, requests,
                fin, fout>>

\* the catalogs the task was given are not empty: cpus[..] and gpus[..]
\* (line 384-385, 146-147, 510-511) do not panic
CatalogsLoaded == main_cpus # <<>> /\ main_gpus # <<>>

\* line 222
Acquire(t) ==
    /\ Running(t) /\ tasks[t].pc = "acquire"
    /\ permits > 0
    /\ permits' = permits - 1
    /\ tasks' = [tasks EXCEPT ![t].permit = TRUE, ![t].pc = "open"]
    /\ UNCHANGED <<store, laptops, prevStore, run, main_pc, nFail>>
    /\ CrawlFixed

\* where a list task goes when the listing at position i is the next one
AfterItems(t, i) ==
    IF i <= Len(PageOf(tasks[t].page)) THEN "items"
    ELSE IF tasks[t].spawn_from_paginator THEN "paginate" ELSE "close"

\* line 225-231: connect, goto, maximize_window; in a list task also the
\* wait of line 329-335, in a benchmark task the wait of line 235-242 on
\* the table of the benchmark page, which has rows
Open(t) ==
    /\ Running(t) /\ tasks[t].pc = "open"
    \* line 331: the wait is not left while the page shows no element
    /\ tasks[t].kind = "list" => PageOf(tasks[t].page) # <<>>
    /\ tasks' = [tasks EXCEPT ![t].sess = "open", ![t].pc =
                    CASE tasks[t].kind = "list" -> AfterItems(t, 1)
                      [] tasks[t].kind = "detail" -> "detail"
                      [] tasks[t].kind = "api" -> "api_get"
                      [] OTHER -> "sentinel"]
    /\ UNCHANGED <<store, laptops, prevStore, permits, run, main_pc, nFail>>
    /\ CrawlFixed

\* a loop body without the check of line 419-425
SkipNever(id) == FALSE

\* line 419-425: the record of the snapshot is fulfilled
Skip(id) == id \in DOMAIN laptops /\ laptops[id].composition # NULL

\* line 338-468: one turn of the loop over the elements of the page
ListItem(t) ==
    /\ Running(t) /\ tasks[t].kind = "list" /\ tasks[t].pc = "items"
    /\ PriceRead(t)
    /\ CatalogsLoaded
    /\ \E r \in {Extract(tasks[t].page, tasks[t].i)} :
       \E row \in {WithIds(r, r.composition)} :
       \E moved \in {[tasks EXCEPT ![t].i = @ + 1,
                                   ![t].pc = AfterItems(t, tasks[t].i + 1)]} :
          IF r.composition = <<>>
          THEN /\ store' = UpsertNoComposition(store, r.id, row)
               /\ tasks' = IF Skip(r.id) THEN moved
                           ELSE Append(moved,
                                    NewTask("detail", t, 0, FALSE,
                                        [id |-> r.id, image |-> r.image,
                                         description |-> r.description,
                                         price |-> r.price, url |-> r.url]))
          ELSE /\ store' = InsertOrReplace(store, r.id, row)
               /\ tasks' = moved
    /\ UNCHANGED <<laptops, prevStore, permits, run, main_pc, nFail>>
    /\ CrawlFixed

\* the flag, were the pagination task created like the root task
ChildKeepsPaginator == TRUE

\* line 485: the flag a pagination task is created with
ChildSpawnFromPaginator == FALSE

\* line 469-491
Paginate(t) ==
    /\ Running(t) /\ tasks[t].pc = "paginate"
    /\ \E last \in {max_page(PaginationLinks)} :
       \E pages \in {IF last > 1
                     THEN [k \in 1..(last - 1) |->
                             NewTask("list", t, k + 1, ChildSpawnFromPaginator, NoLaptop)]
                     ELSE <<>>} :
          tasks' = [tasks EXCEPT ![t].pc = "close"] \o pages
    /\ UNCHANGED <<store, laptops, prevStore, permits, run, main_pc, nFail>>
    /\ CrawlFixed

\* line 493 without the drop(permit) of line 494
CloseWindowKeepPermit(t) ==
    /\ Running(t) /\ tasks[t].pc = "close"
    /\ tasks' = [tasks EXCEPT ![t].sess = "window_closed", ![t].pc = "join"]
    /\ UNCHANGED <<store, laptops, prevStore, permits, run, main_pc, nFail>>
    /\ CrawlFixed

\* line 493-494: close_window, then drop(permit)
CloseWindow(t) ==
    /\ Running(t) /\ tasks[t].pc = "close"
    /\ tasks' = [tasks EXCEPT ![t].sess = "window_closed", ![t].permit = FALSE,
                              ![t].pc = "join"]
    /\ permits' = permits + Released(t)
    /\ UNCHANGED <<store, laptops, prevStore, run, main_pc, nFail>>
    /\ CrawlFixed

\* line 496-500: join_next returns a finished task of the set
JoinNext(t) ==
    /\ Running(t) /\ tasks[t].pc = "join"
    /\ \E c \in Children(tasks, t) :
        /\ tasks[c].res # "none" /\ ~tasks[c].joined
        /\ tasks' = [tasks EXCEPT ![c].joined = TRUE]
    /\ UNCHANGED <<store, laptops, prevStore, permits, run, main_pc, nFail>>
    /\ CrawlFixed

\* line 496: join_next returns None, the set is empty
JoinEnd(t) ==
    /\ Running(t) /\ tasks[t].pc = "join"
    /\ \A c \in Children(tasks, t) : tasks[c].joined
    /\ tasks' = [tasks EXCEPT ![t].pc = "final"]
    /\ UNCHANGED <<store, laptops, prevStore, permits, run, main_pc, nFail>>
    /\ CrawlFixed

\* line 502-536
Detail(t) ==
    /\ Running(t) /\ tasks[t].kind = "detail" /\ tasks[t].pc = "detail"
    /\ CatalogsLoaded
    /\ \E l \in {tasks[t].laptop} :
       \E row \in {WithIds(l, detailText[l.id])} :
          store' = InsertOrReplace(store, l.id, row)
    /\ tasks' = [tasks EXCEPT ![t].pc = "final"]
    /\ UNCHANGED <<laptops, prevStore, permits, run, main_pc, nFail>>
    /\ CrawlFixed

\* the "total_pages" member of the response (line 110): the API of a site
\* without listings sends none
TotalPagesField == IF LastPage = 0 THEN None ELSE <<LastPage>>

\* Option::unwrap_or
unwrap_or(option, default) == IF option = None THEN default ELSE option[1]

\* line 110, 538
total_pages == unwrap_or(TotalPagesField, 0)

\* a request that asks for the first product of the page only
FirstProductId(p) == IF PageOf(p) = <<>> THEN <<>> ELSE <<PageOf(p)[1].id>>

\* line 111-113: the ids of the response, all in one request
ProductIds(p) == [k \in DOMAIN PageOf(p) |-> PageOf(p)[k].id]

\* line 101-109: the request for page `number`
ApiGet(t) ==
    /\ Running(t) /\ tasks[t].kind = "api" /\ tasks[t].pc = "api_get"
    /\ requests' = Append(requests, [request |-> "get", page |-> tasks[t].page,
                                     product_ids |-> <<>>])
    /\ tasks' = [tasks EXCEPT ![t].pc = "api_details"]
    /\ UNCHANGED <<store, laptops, prevStore, permits, run, main_pc, nFail,
                   limit, site, detailText, rootKind, matcher, cpuTable,
                   gpuTable, main_cpus, main_gpus, fin, fout>>

\* line 112-118: the request for the details of the products of the page
ApiGetDetails(t) ==
    /\ Running(t) /\ tasks[t].kind = "api" /\ tasks[t].pc = "api_details"
    /\ requests' = Append(requests, [request |-> "getDetails",
                                     page |-> tasks[t].page,
                                     product_ids |-> ProductIds(tasks[t].page)])
    /\ tasks' = [tasks EXCEPT ![t].pc = "api"]
    /\ UNCHANGED <<store, laptops, prevStore, permits, run, main_pc, nFail,
                   limit, site, detailText, rootKind, matcher, cpuTable,
                   gpuTable, main_cpus, main_gpus, fin, fout>>

\* line 537-542 with process_page_ajax (line 119-212): one laptop of the
\* page, or the step to the next page when the page is exhausted
ApiItem(t) ==
    /\ Running(t) /\ tasks[t].kind = "api" /\ tasks[t].pc = "api"
    /\ LET p == tasks[t].page
           i == tasks[t].i
       IN IF i <= Len(PageOf(p))
          THEN /\ PriceRead(t)
               /\ CatalogsLoaded
               /\ \E r \in {Extract(p, i)} :
                  \E row \in {WithIds(r, r.composition)} :
                     /\ store' = IF r.composition = <<>>
                                 THEN UpsertNoComposition(store, r.id, row)
                                 ELSE InsertOrReplace(store, r.id, row)
                     /\ tasks' = [tasks EXCEPT ![t].i = i + 1]
          ELSE /\ store' = store
               /\ tasks' = IF p < total_pages
                           THEN [tasks EXCEPT ![t].page = p + 1, ![t].i = 1,
                                              ![t].pc = "api_get"]
                           ELSE [tasks EXCEPT ![t].pc = "final"]
    /\ UNCHANGED <<laptops, prevStore, permits, run, main_pc, nFail>>
    /\ CrawlFixed

\* line 384-385, 146-147, 510-511: indexing an empty catalog panics; the
\* future ends, its permit and its JoinSet are dropped
CatalogPanic(t) ==
    /\ Running(t)
    /\ \/ tasks[t].kind = "list" /\ tasks[t].pc = "items" /\ PriceRead(t)
       \/ tasks[t].kind = "detail" /\ tasks[t].pc = "detail"
       \/ /\ tasks[t].kind = "api" /\ tasks[t].pc = "api"
          /\ tasks[t].i <= Len(PageOf(tasks[t].page))
          /\ PriceRead(t)
    /\ ~CatalogsLoaded
    /\ tasks' = DropJoinSet([tasks EXCEPT ![t].res = "panic",
                                          ![t].permit = FALSE], t)
    /\ permits' = permits + Released(t)
    /\ UNCHANGED <<store, laptops, prevStore, run, main_pc, nFail>>
    /\ CrawlFixed

\* line 374: the `?` returns the ParseIntError of a price text without
\* digit; line 123: the unwrap of a "price" that is no integer panics.
\* Nothing of the listing was written; the future ends, its permit and its
\* JoinSet are dropped
PriceFail(t) ==
    /\ Running(t)
    /\ \/ tasks[t].kind = "list" /\ tasks[t].pc = "items"
       \/ /\ tasks[t].kind = "api" /\ tasks[t].pc = "api"
          /\ tasks[t].i <= Len(PageOf(tasks[t].page))
    /\ ~PriceRead(t)
    /\ tasks' = DropJoinSet([tasks EXCEPT ![t].res =
                                             IF tasks[t].kind = "list"
                                             THEN "err" ELSE "panic",
                                          ![t].permit = FALSE], t)
    /\ permits' = permits + Released(t)
    /\ UNCHANGED <<store, laptops, prevStore, run, main_pc, nFail>>
    /\ CrawlFixed

\* INSERT INTO cpu / gpu: the table as ORDER BY id reads it
InsertRow(table, row) ==
    SelectSeq(table, LAMBDA x : x.id < row.id) \o <<row>>
        \o SelectSeq(table, LAMBDA x : x.id > row.id)

\* the rows the benchmark page of the task shows (line 236, 283)
BenchRows(t) == IF tasks[t].kind = "cpu_bench" THEN Tail(Cpus) ELSE Tail(Gpus)

\* where a benchmark task goes when the row at position i is the next one
AfterRows(t, i) == IF i <= Len(BenchRows(t)) THEN "rows" ELSE "final"

\* line 243-247, 289-293: the row of id 0
BenchSentinel(t) ==
    /\ Running(t) /\ tasks[t].pc = "sentinel"
    /\ IF tasks[t].kind = "cpu_bench"
       THEN cpuTable' = InsertRow(cpuTable, Cpus[1]) /\ gpuTable' = gpuTable
       ELSE gpuTable' = InsertRow(gpuTable, Gpus[1]) /\ cpuTable' = cpuTable
    /\ tasks' = [tasks EXCEPT ![t].pc = AfterRows(t, 1)]
    /\ UNCHANGED <<store, laptops, prevStore, permits, run, main_pc, nFail,
                   limit, site, detailText, rootKind, matcher, main_cpus,
                   main_gpus, requests, fin, fout>>

\* line 249-277, 295-324: one turn of the loop over the rows
BenchRow(t) ==
    /\ Running(t) /\ tasks[t].pc = "rows"
    /\ IF tasks[t].kind = "cpu_bench"
       THEN /\ cpuTable' = InsertRow(cpuTable, BenchRows(t)[tasks[t].i])
            /\ gpuTable' = gpuTable
       ELSE /\ gpuTable' = InsertRow(gpuTable, BenchRows(t)[tasks[t].i])
            /\ cpuTable' = cpuTable
    /\ tasks' = [tasks EXCEPT ![t].i = @ + 1,
                              ![t].pc = AfterRows(t, tasks[t].i + 1)]
    /\ UNCHANGED <<store, laptops, prevStore, permits, run, main_pc, nFail,
                   limit, site, detailText, rootKind, matcher, main_cpus,
                   main_gpus, requests, fin, fout>>

\* line 545-547 and the end of the future, where the permit is dropped
FinalClose(t) ==
    /\ Running(t) /\ tasks[t].pc = "final"
    /\ tasks' = [tasks EXCEPT ![t].sess = "closed", ![t].permit = FALSE,
                              ![t].res = "ok", ![t].pc = "end"]
    /\ permits' = permits + Released(t)
    /\ UNCHANGED <<store, laptops, prevStore, run, main_pc, nFail>>
    /\ CrawlFixed

\* the awaits that end the task early: expect (line 229) and the unwraps of
\* process_page_ajax panic, every `?` returns the error.  The future ends,
\* its permit and its JoinSet are dropped, the session is left as it is.
\* the positions inside process_page_ajax, where every failure is an unwrap
ApiPcs == {"api_get", "api_details", "api"}

FailPcs ==
    {"open", "items", "paginate", "close", "detail", "api_get",
     "api_details", "api", "final", "sentinel", "rows"}

Fail(t) ==
    /\ Running(t) /\ tasks[t].pc \in FailPcs
    /\ nFail < MaxFailures
    /\ nFail' = nFail + 1
    /\ \E connected \in BOOLEAN :
        /\ tasks[t].pc # "open" => connected
        /\ tasks' = DropJoinSet(
                        [tasks EXCEPT ![t].res =
                                          IF ~connected \/ tasks[t].pc \in ApiPcs
                                          THEN "panic" ELSE "err",
                                      ![t].sess =
                                          IF tasks[t].pc = "open" /\ connected
                                          THEN "open" ELSE @,
                                      ![t].permit = FALSE], t)
    /\ permits' = permits + Released(t)
    /\ UNCHANGED <<store, laptops, prevStore, run, main_pc>>
    /\ CrawlFixed

\* an aborted task is dropped at the await it is suspended at
Abort(t) ==
    /\ t \in DOMAIN tasks /\ tasks[t].res = "none" /\ tasks[t].abort
    /\ tasks' = DropJoinSet([tasks EXCEPT ![t].res = "aborted",
                                          ![t].permit = FALSE], t)
    /\ permits' = permits + Released(t)
    /\ UNCHANGED <<store, laptops, prevStore, run, main_pc, nFail>>
    /\ CrawlFixed

\* the Client of an ended task was dropped without close (line 548): the
\* crate ends its session from a background task, some time later
DropShutdown(t) ==
    /\ t \in DOMAIN tasks
    /\ tasks[t].res \in {"err", "panic", "aborted"}
    /\ tasks[t].sess = "open"
    /\ tasks' = [tasks EXCEPT ![t].sess = "closed"]
    /\ UNCHANGED <<store, laptops, prevStore, permits, run, main_pc, nFail>>
    /\ CrawlFixed

\* what main's actions leave alone
MainFixed ==
    UNCHANGED <<limit, site, detailText, rootKind, matcher, cpuTable, gpuTable,
                fin, fout>>

\* lib.rs get_cpus (line 56-69), get_gpus (line 71-85): the table, by id
get_cpus == cpuTable

get_gpus == gpuTable

\* a main that keeps the catalog it loaded first
KeptAsLoaded(loaded, table) == loaded

\* line 629-635: the catalog that loaded empty is read again
Reloaded(loaded, table) == IF loaded = <<>> THEN table ELSE loaded

\* main, line 600-620: a benchmark task for each catalog that loaded empty
SpawnBenchmarks ==
    /\ main_pc = "start"
    /\ main_cpus' = get_cpus
    /\ main_gpus' = get_gpus
    /\ tasks' =
          (IF get_cpus = <<>>
           THEN <<NewTask("cpu_bench", 0, 0, FALSE, NoLaptop)>> ELSE <<>>)
          \o (IF get_gpus = <<>>
              THEN <<NewTask("gpu_bench", 0, 0, FALSE, NoLaptop)>> ELSE <<>>)
    /\ main_pc' = "join_bench"
    /\ UNCHANGED <<store, laptops, prevStore, permits, run, nFail, requests>>
    /\ MainFixed

\* main, line 622-636: join_next until the set is empty, failures are
\* printed; the catalogs that loaded empty are read again
JoinBenchmarks ==
    /\ main_pc = "join_bench"
    /\ \A t \in DOMAIN tasks : tasks[t].res # "none"
    /\ tasks' = <<>>
    /\ main_cpus' = Reloaded(main_cpus, get_cpus)
    /\ main_gpus' = Reloaded(main_gpus, get_gpus)
    /\ main_pc' = "spawn_root"
    /\ UNCHANGED <<store, laptops, prevStore, permits, run, nFail, requests>>
    /\ MainFixed

\* the result of main, were the failure of the root task returned
MainPropagates(res) == IF res = "ok" THEN "done" ELSE "failed"

\* line 647-651: whatever join_next gives is printed at most, then Ok(())
MainResult(res) == "done"

\* main, line 637-645: load the records, spawn the root task
StartRoot ==
    /\ main_pc = "spawn_root"
    /\ laptops' = store
    /\ tasks' = <<NewTask(rootKind, 0, 1, rootKind = "list", NoLaptop)>>
    /\ main_pc' = "join_root"
    /\ UNCHANGED <<store, prevStore, permits, run, nFail>>
    /\ CrawlFixed

\* main, line 647-651
MainJoin ==
    /\ main_pc = "join_root"
    /\ tasks[1].res # "none"
    /\ tasks' = [tasks EXCEPT ![1].joined = TRUE]
    /\ main_pc' = MainResult(tasks[1].res)
    /\ UNCHANGED <<store, laptops, prevStore, permits, run, nFail>>
    /\ CrawlFixed

\* the process is started again on the same database (line 593-596)
NextRun ==
    /\ main_pc = "done"
    /\ \A t \in DOMAIN tasks : tasks[t].res # "none"
    /\ run < MaxRuns
    /\ run' = run + 1
    /\ prevStore' = store
    /\ tasks' = <<>>
    /\ laptops' = <<>>
    /\ permits' = limit
    /\ main_cpus' = <<>> /\ main_gpus' = <<>>
    /\ requests' = <<>>
    /\ main_pc' = "start"
    /\ UNCHANGED <<store, nFail>>
    /\ MainFixed

Pages ==
    UNION {[1..n -> [id : Ids, composition : Comps, price : PriceTexts]] :
              n \in 0..MaxListings}

RECURSIVE Listed(_, _)
Listed(s, p) == IF p = 0 THEN 0 ELSE Len(s[p]) + Listed(s, p - 1)

\* the sites of at most MaxPages pages and MaxListings listings
Sites == {s \in [1..MaxPages -> Pages] : Listed(s, MaxPages) <= MaxListings}

Init ==
    /\ tasks = <<>>
    /\ store = <<>>
    /\ laptops = <<>>
    /\ prevStore = <<>>
    /\ limit \in 1..MaxPool
    /\ permits = limit
    /\ site \in Sites
    /\ detailText \in [Ids -> Comps]
    /\ rootKind \in {"list", "api"}
    /\ run = 1
    /\ main_pc = "start"
    /\ nFail = 0
    /\ matcher = SkimTable
    /\ cpuTable \in {<<>>, Cpus}
    /\ gpuTable \in {<<>>, Gpus}
    /\ main_cpus = <<>> /\ main_gpus = <<>>
    /\ requests = <<>>
    /\ fin = <<>>
    /\ fout = <<>>

Next ==
    \/ SpawnBenchmarks
    \/ JoinBenchmarks
    \/ StartRoot
    \/ MainJoin
    \/ NextRun
    \/ \E t \in DOMAIN tasks : Acquire(t)
    \/ \E t \in DOMAIN tasks : Open(t)
    \/ \E t \in DOMAIN tasks : ListItem(t)
    \/ \E t \in DOMAIN tasks : Paginate(t)
    \/ \E t \in DOMAIN tasks : CloseWindow(t)
    \/ \E t \in DOMAIN tasks : JoinNext(t)
    \/ \E t \in DOMAIN tasks : JoinEnd(t)
    \/ \E t \in DOMAIN tasks : Detail(t)
    \/ \E t \in DOMAIN tasks : ApiGet(t)
    \/ \E t \in DOMAIN tasks : ApiGetDetails(t)
    \/ \E t \in DOMAIN tasks : ApiItem(t)
    \/ \E t \in DOMAIN tasks : CatalogPanic(t)
    \/ \E t \in DOMAIN tasks : PriceFail(t)
    \/ \E t \in DOMAIN tasks : BenchSentinel(t)
    \/ \E t \in DOMAIN tasks : BenchRow(t)
    \/ \E t \in DOMAIN tasks : FinalClose(t)
    \/ \E t \in DOMAIN tasks : Fail(t)
    \/ \E t \in DOMAIN tasks : Abort(t)
    \/ \E t \in DOMAIN tasks : DropShutdown(t)

Spec == Init /\ [][Next]_vars

\* the behaviours in which a step of the program that stays possible is
\* eventually taken (the tokio scheduler polls every runnable task); a
\* failure is never forced
Step ==
    \/ SpawnBenchmarks
    \/ JoinBenchmarks
    \/ StartRoot
    \/ MainJoin
    \/ NextRun
    \/ \E t \in DOMAIN tasks :
        \/ Acquire(t) \/ Open(t) \/ ListItem(t) \/ Paginate(t)
        \/ CloseWindow(t) \/ JoinNext(t) \/ JoinEnd(t) \/ Detail(t)
        \/ ApiGet(t) \/ ApiGetDetails(t)
        \/ ApiItem(t) \/ CatalogPanic(t) \/ PriceFail(t)
        \/ BenchSentinel(t) \/ BenchRow(t)
        \/ FinalClose(t) \/ Abort(t) \/ DropShutdown(t)

FairSpec == Spec /\ WF_vars(Step)

(***************************************************************************)
(* The pure functions on their own: the input is drawn in Init and the     *)
(* one action applies the function to it                                   *)
(***************************************************************************)
MaxCatalog == 2
MaxScore == 2
MaxDevices == 2
MaxText == 5

\* main has not started the crawl
CrawlIdle ==
    /\ tasks = <<>> /\ store = <<>> /\ laptops = <<>> /\ prevStore = <<>>
    /\ limit = 1 /\ permits = 1
    /\ site = [p \in 1..MaxPages |-> <<>>]
    /\ detailText = [x \in Ids |-> <<>>]
    /\ rootKind = "api" /\ run = 1 /\ main_pc = "start" /\ nFail = 0
    /\ cpuTable = Cpus /\ gpuTable = Gpus
    /\ main_cpus = <<>> /\ main_gpus = <<>>
    /\ requests = <<>>

CrawlUntouched ==
    UNCHANGED <<tasks, store, laptops, prevStore, permits, limit, site,
                detailText, rootKind, run, main_pc, nFail, matcher,
                cpuTable, gpuTable, main_cpus, main_gpus, requests>>

\* the catalog get_best_match walks: the row at index 0 is the sentinel
MatchCatalog == [k \in 1..MaxCatalog |-> [id |-> k - 1, name |-> k]]

MatchDevices == {"x", "y"}

\* Option<i64> of fuzzy_match
ScoreOptions == {None} \cup {<<sc>> : sc \in (-1)..MaxScore}

InitMatch ==
    /\ CrawlIdle
    /\ matcher \in [MatchDevices \X (1..MaxCatalog) -> ScoreOptions]
    /\ fin \in UNION {[1..n -> MatchDevices] : n \in 0..MaxDevices}
    /\ fout = <<>>

\* one call of get_best_match (line 384)
ApplyMatch ==
    /\ fout = <<>>
    /\ fout' = <<get_best_match(fin, MatchCatalog)>>
    /\ fin' = fin
    /\ CrawlUntouched

NextMatch == ApplyMatch

SpecMatch == InitMatch /\ [][NextMatch]_vars

TextChars == {"a", " ", "/", "("}

ExampleText ==
    <<"I", "n", "t", "e", "l", " ", "C", "o", "r", "e", " ", "i", "5",
      "-", "1", "1", "3", "5", "G", "7", "(", "4", " ", "c", "o", "r",
      "e", "s", ")", " ", "/", " ", "8", "G", "B", " ", "R", "A", "M",
      " ", "/", " ", "N", "V", "I", "D", "I", "A", " ", "G", "e", "F",
      "o", "r", "c", "e", " ", "M", "X", "3", "5", "0", "(", "2", "G",
      "B", ")">>

InitDevices ==
    /\ CrawlIdle
    /\ matcher = SkimTable
    /\ fin \in UNION {[1..n -> TextChars] : n \in 0..MaxText} \cup {ExampleText}
    /\ fout = <<>>

\* one evaluation of the map chain of line 383
ApplyDevices ==
    /\ fout = <<>>
    /\ fout' = <<Devices(fin)>>
    /\ fin' = fin
    /\ CrawlUntouched

NextDevices == ApplyDevices

SpecDevices == InitDevices /\ [][NextDevices]_vars

(***************************************************************************)
(* Price of a listing (line 366-374)                                       *)
(***************************************************************************)
MaxPriceText == 4

\* the characters of a price text: digits, the space that groups them and
\* the currency sign
PriceChars == {"0", "2", "9", " ", "hryvnia"}

ExamplePrice == <<"2", "3", " ", "9", "9", "9", " ", "hryvnia">>

InitPrice ==
    /\ CrawlIdle
    /\ matcher = SkimTable
    /\ fin \in UNION {[1..n -> PriceChars] : n \in 0..MaxPriceText} \cup {ExamplePrice}
    /\ fout = <<>>

\* one evaluation of line 366-374
ApplyPrice ==
    /\ fout = <<>>
    /\ fout' = <<Price(fin)>>
    /\ fin' = fin
    /\ CrawlUntouched

NextPrice == ApplyPrice

SpecPrice == InitPrice /\ [][NextPrice]_vars

(***************************************************************************)
(* The wait for a settled page (line 235-242, 282-288, 329-335), on its    *)
(* own: fin is the counts the successive find_all calls return, fout the   *)
(* loop's variables                                                        *)
(***************************************************************************)
MaxCount == 2
MaxQueries == 4

\* a loop condition that compares the two counts only
CountsDiffer(row_count, len) == row_count # len

\* line 238, 285, 331: while row_count == 0 || row_count != rows.len()
Waiting(row_count, len) == row_count = 0 \/ row_count # len

InitWait ==
    /\ CrawlIdle
    /\ matcher = SkimTable
    /\ fin \in UNION {[1..n -> 0..MaxCount] : n \in 1..MaxQueries}
    /\ fout = <<>>

\* line 236-237: row_count = 0 and the first find_all
WaitFirstQuery ==
    /\ fout = <<>>
    /\ fout' = <<[row_count |-> 0, rows |-> fin[1], queries |-> 1, left |-> FALSE]>>
    /\ fin' = fin
    /\ CrawlUntouched

\* line 239-241: one turn of the loop, with the next find_all
WaitTurn ==
    /\ fout # <<>> /\ ~fout[1].left
    /\ Waiting(fout[1].row_count, fout[1].rows)
    /\ fout[1].queries < Len(fin)
    /\ fout' = <<[row_count |-> fout[1].rows, rows |-> fin[fout[1].queries + 1],
                  queries |-> fout[1].queries + 1, left |-> FALSE]>>
    /\ fin' = fin
    /\ CrawlUntouched

\* line 238: the condition is false, the loop is left
WaitLeave ==
    /\ fout # <<>> /\ ~fout[1].left
    /\ ~Waiting(fout[1].row_count, fout[1].rows)
    /\ fout' = <<[fout[1] EXCEPT !.left = TRUE]>>
    /\ fin' = fin
    /\ CrawlUntouched

NextWait == WaitFirstQuery \/ WaitTurn \/ WaitLeave

SpecWait == InitWait /\ [][NextWait]_vars

(***************************************************************************)
(* The composition text of a listing (line 357-365) and of a product page  *)
(* (line 503-507), on its own: fin holds, for every selector of the chain, *)
(* the outcome of each successive find (TRUE: the element is there)        *)
(***************************************************************************)
\* for _ in 0..3 (line 57, 75)
Retries == 3

\* the text of the element, when it is found
ElementText == <<"c", "bullet", "g">>

\* str::replace of the bullet by a slash (line 360, 506)
ReplaceBullet(text) == [k \in DOMAIN text |-> IF text[k] = "bullet" THEN "/" ELSE text[k]]

\* line 57-64, 75-82: the loop, with `turns` turns left, after find number k
RECURSIVE RetryLoop(_, _, _, _)
RetryLoop(finds, k, turns, found) ==
    IF turns = 0 \/ found THEN found
    ELSE RetryLoop(finds, k + 1, turns - 1, finds[k + 1])

\* try_load_by_element (line 50-67): Ok or Err
try_load_by_element(finds, repeat) ==
    IF repeat THEN RetryLoop(finds, 1, Retries, finds[1]) ELSE finds[1]

\* try_load_by_client (line 69-83): Ok or Err
try_load_by_client(finds) == RetryLoop(finds, 1, Retries, finds[1])

\* line 357-365
ListingComposition(finds, first_time) ==
    IF try_load_by_element(finds[1], first_time)
    THEN [res |-> "ok", composition |-> ElementText]
    ELSE IF try_load_by_element(finds[2], first_time)
    THEN [res |-> "ok", composition |-> ReplaceBullet(ElementText)]
    ELSE IF try_load_by_element(finds[3], first_time)
    THEN [res |-> "ok", composition |-> ElementText]
    ELSE [res |-> "ok", composition |-> <<>>]

\* line 503-507: the `?` on the second try_load_by_client returns its error
DetailComposition(finds) ==
    IF try_load_by_client(finds[1])
    THEN [res |-> "ok", composition |-> ElementText]
    ELSE IF try_load_by_client(finds[2])
    THEN [res |-> "ok", composition |-> ReplaceBullet(ElementText)]
    ELSE [res |-> "err", composition |-> <<>>]

\* the outcomes of the 1 + Retries finds of one selector
FindOutcomes == [1..(Retries + 1) -> BOOLEAN]

InitComposition ==
    /\ CrawlIdle
    /\ matcher = SkimTable
    /\ fin \in {<<[page |-> "listing", first_time |-> b, finds |-> f]>> :
                   b \in BOOLEAN, f \in [1..3 -> FindOutcomes]}
               \cup {<<[page |-> "detail", first_time |-> TRUE, finds |-> f]>> :
                       f \in [1..2 -> FindOutcomes]}
    /\ fout = <<>>

\* one evaluation of line 357-365
ApplyListingComposition ==
    /\ fout = <<>> /\ fin[1].page = "listing"
    /\ fout' = <<ListingComposition(fin[1].finds, fin[1].first_time)>>
    /\ fin' = fin
    /\ CrawlUntouched

\* one evaluation of line 503-507
ApplyDetailComposition ==
    /\ fout = <<>> /\ fin[1].page = "detail"
    /\ fout' = <<DetailComposition(fin[1].finds)>>
    /\ fin' = fin
    /\ CrawlUntouched

NextComposition == ApplyListingComposition \/ ApplyDetailComposition

SpecComposition == InitComposition /\ [][NextComposition]_vars

(***************************************************************************)
(* Two extractions of one listing written in either order: fin holds the   *)
(* table before and the two extractions, fout the table after              *)
(***************************************************************************)
MaxField == 2

\* an extraction of listing 1 with the fields set from f, the component
\* ids resolved from its composition (line 383-385)
Extraction(f, composition) ==
    WithIds([image |-> f[1], description |-> f[1], price |-> f[2], url |-> 1],
            composition)

\* line 388-417, then line 443-467 or 513-534
EmptyThenPresent(st, e, n) == InsertOrReplace(UpsertNoComposition(st, 1, e), 1, n)

\* line 443-467 or 513-534, then line 388-417
PresentThenEmpty(st, e, n) == UpsertNoComposition(InsertOrReplace(st, 1, n), 1, e)

InitMerge ==
    /\ tasks = <<>> /\ store = <<>> /\ laptops = <<>> /\ prevStore = <<>>
    /\ limit = 1 /\ permits = 1
    /\ site = [p \in 1..MaxPages |-> <<>>]
    /\ detailText = [x \in Ids |-> <<>>]
    /\ rootKind = "list" /\ run = 1 /\ main_pc = "join_root" /\ nFail = 0
    /\ cpuTable = Cpus /\ gpuTable = Gpus
    /\ main_cpus = Cpus /\ main_gpus = Gpus
    /\ requests = <<>>
    /\ matcher = SkimTable
    /\ fin \in {<<[st |-> st, e |-> Extraction(fe, <<>>),
                   n |-> Extraction(fn, <<"c", "/", "g">>)]>> :
                   st \in {<<>>,
                           <<[Extraction(<<0, 0>>, <<>>) EXCEPT !.composition = NULL]>>,
                           <<Extraction(<<0, 0>>, <<"c", "/", "g">>)>>},
                   fe \in (1..MaxField) \X (1..MaxField),
                   fn \in (1..MaxField) \X (1..MaxField)}
    /\ fout = <<>>

ApplyEmptyThenPresent ==
    /\ fout = <<>>
    /\ fout' = <<EmptyThenPresent(fin[1].st, fin[1].e, fin[1].n)>>
    /\ fin' = fin
    /\ CrawlUntouched

ApplyPresentThenEmpty ==
    /\ fout = <<>>
    /\ fout' = <<PresentThenEmpty(fin[1].st, fin[1].e, fin[1].n)>>
    /\ fin' = fin
    /\ CrawlUntouched

NextMerge == ApplyEmptyThenPresent \/ ApplyPresentThenEmpty

SpecMerge == InitMerge /\ [][NextMerge]_vars

(***************************************************************************)
(* The ranking view (lib.rs line 186-219, main.rs line 77-118), on its     *)
(* own: fin holds the records get_laptops returned and the parameters of   *)
(* the request, fout the answer                                            *)
(***************************************************************************)
MaxLaptops == 2
MaxBenchScore == 2
MaxPriceValue == 2
MaxWeight == 1

\* i64 `/` with a divisor that is not 0: the quotient is truncated toward 0
TruncDiv(a, b) ==
    IF (a >= 0) = (b > 0)
    THEN (IF a >= 0 THEN a ELSE -a) \div (IF b > 0 THEN b ELSE -b)
    ELSE -((IF a >= 0 THEN a ELSE -a) \div (IF b > 0 THEN b ELSE -b))

\* lib.rs line 213-219, main.rs line 104-118: the highest cpu_score and the
\* highest gpu_score of the records (the unwraps need one record at least)
max_scores(views) ==
    <<CHOOSE m \in {views[k].cpu_score : k \in DOMAIN views} :
          \A k \in DOMAIN views : views[k].cpu_score <= m,
      CHOOSE m \in {views[k].gpu_score : k \in DOMAIN views} :
          \A k \in DOMAIN views : views[k].gpu_score <= m>>

\* lib.rs line 195-199
ScoredLaptop(laptop, params, maximums) ==
    [laptop |-> laptop,
     total_score |-> TruncDiv(laptop.cpu_score * params.cpu, maximums[1])
                     + TruncDiv(laptop.gpu_score * params.gpu, maximums[2])]

\* lib.rs line 201: the key of sort_by_key
SortKey(scored) == TruncDiv(scored.laptop.price * 1000, scored.total_score + 1)

\* a sort is stable: x goes behind the elements whose key is not greater
RECURSIVE InsertByKey(_, _)
InsertByKey(sorted, x) ==
    IF sorted = <<>> THEN <<x>>
    ELSE IF SortKey(Head(sorted)) <= SortKey(x)
         THEN <<Head(sorted)>> \o InsertByKey(Tail(sorted), x)
         ELSE <<x>> \o sorted

RECURSIVE sort_by_key(_, _)
\* slice::sort_by_key, the elements from position k on still to be placed
sort_by_key(list, k) ==
    IF k > Len(list) THEN <<>>
    ELSE InsertByKey(sort_by_key(list, k + 1), list[Len(list) + 1 - k])

\* lib.rs line 186-204 (main.rs line 77-95 is the same): a division by 0
\* panics, and so does a slice that ends behind the last element.  A slice
\* of fewer than two elements is sorted without a call of the key.
laptop_request_handler(views, maximums, params) ==
    IF maximums[1] = 0 \/ maximums[2] = 0
    THEN [res |-> "divide_by_zero", laptops |-> <<>>]
    ELSE LET scored == [k \in DOMAIN views |->
                           ScoredLaptop(views[k], params, maximums)]
         IN IF Len(scored) >= 2
               /\ \E k \in DOMAIN scored : scored[k].total_score + 1 = 0
            THEN [res |-> "divide_by_zero", laptops |-> <<>>]
            ELSE IF params.quantity > Len(scored)
            THEN [res |-> "out_of_range", laptops |-> <<>>]
            ELSE [res |-> "ok",
                  laptops |-> SubSeq(IF Len(scored) >= 2
                                     THEN sort_by_key(scored, 1) ELSE scored,
                                     1, params.quantity)]

\* the rows of get_laptops: price and the scores of the joined components
LaptopViews ==
    [price : 1..MaxPriceValue, cpu_score : 0..MaxBenchScore,
     gpu_score : 0..MaxBenchScore]

InitRank ==
    /\ CrawlIdle
    /\ matcher = SkimTable
    /\ fin \in {<<[laptops |-> l, params |-> [cpu |-> c, gpu |-> g, quantity |-> q]]>> :
                   l \in UNION {[1..n -> LaptopViews] : n \in 1..MaxLaptops},
                   c \in (-MaxWeight)..MaxWeight, g \in (-MaxWeight)..MaxWeight,
                   q \in 0..MaxLaptops}
    /\ fout = <<>>

\* one request: the maximums main has computed, then the handler
ApplyRank ==
    /\ fout = <<>>
    /\ fout' = <<laptop_request_handler(fin[1].laptops, max_scores(fin[1].laptops),
                                        fin[1].params)>>
    /\ fin' = fin
    /\ CrawlUntouched

NextRank == ApplyRank

SpecRank == InitRank /\ [][NextRank]_vars

(***************************************************************************)
(* Claims about the crawl                                                  *)
(***************************************************************************)
\* task t takes, in this step, the turn of its loop for a listing of `id`
\* whose extracted composition is empty (listing page or API page)
EmptyUpsertStep(t, id) ==
    /\ Running(t)
    /\ \/ tasks[t].kind = "list" /\ tasks[t].pc = "items"
       \/ tasks[t].kind = "api" /\ tasks[t].pc = "api"
    /\ tasks[t].i <= Len(PageOf(tasks[t].page))
    /\ Extract(tasks[t].page, tasks[t].i).id = id
    /\ Extract(tasks[t].page, tasks[t].i).composition = <<>>
    /\ t \in DOMAIN tasks'
    /\ tasks'[t].i = tasks[t].i + 1

\* C1: an upsert with empty composition on a stored record whose
\* composition is non-empty leaves the whole row as it was (composition,
\* image, description, url, price, cpu id, gpu id).
C1_MergeNeverRegresses ==
    [][\A id \in DOMAIN store : \A t \in DOMAIN tasks :
        (Enriched(store[id]) /\ EmptyUpsertStep(t, id)) => store'[id] = store[id]]_vars

\* C2: a record whose stored composition is non-empty has a non-empty
\* composition after every later step of the run, whichever task writes.
C2_EnrichedStaysEnriched ==
    [][\A id \in DOMAIN store :
        Enriched(store[id]) => (id \in DOMAIN store' /\ Enriched(store'[id]))]_vars

\* the sessions that were connected and whose window was not closed
OpenSessions == {t \in DOMAIN tasks : tasks[t].sess = "open"}

\* C3: at no time are more sessions open than the pool limit.
C3_SessionsBounded == Cardinality(OpenSessions) <= limit

\* C4: a task that waits for its subtasks (join_next) holds no permit.
C4_SlotReleasedBeforeJoin ==
    \A t \in DOMAIN tasks :
        (tasks[t].res = "none" /\ tasks[t].pc = "join") => ~tasks[t].permit

\* a list task waits for a subtask that has not finished, while that
\* subtask holds the permit or waits for one
C4_Witness ==
    \E t \in DOMAIN tasks : \E c \in Children(tasks, t) :
        /\ tasks[t].res = "none" /\ tasks[t].pc = "join"
        /\ tasks[c].res = "none" /\ tasks[c].pc = "open"
        /\ permits = 0 /\ limit = 1

\* every permit is held by a task that waits for its subtasks, and a task
\* waits for a permit
SlotDeadlock ==
    /\ permits = 0
    /\ \E t \in DOMAIN tasks : tasks[t].res = "none" /\ tasks[t].pc = "acquire"
    /\ \A h \in DOMAIN tasks :
        tasks[h].permit => (tasks[h].res = "none" /\ tasks[h].pc = "join")

\* every page a list task opens shows at least one listing, so that its
\* wait (line 331) ends
PagesSettle ==
    rootKind = "list" => \A p \in 1..MaxPages : (p = 1 \/ p <= LastPage) => site[p] # <<>>

\* every price the site shows can be read, by a list task and by the api task
PricesReadable ==
    \A p \in 1..MaxPages : \A i \in DOMAIN site[p] :
        PriceParses(site[p][i].price) /\ as_i64(site[p][i].price).ok

\* the last run is over: main has joined the root task, no task is left
\* running, and when nothing failed every task was joined by its parent
CrawlDone ==
    /\ run = MaxRuns /\ main_pc = "done"
    /\ \A t \in DOMAIN tasks : tasks[t].res # "none"
    /\ (nFail = 0 /\ PricesReadable) =>
          \A t \in DOMAIN tasks : tasks[t].res = "ok" /\ tasks[t].joined

RECURSIVE Depth(_)
\* number of parse calls above task t, the root task having none
Depth(t) == IF tasks[t].parent = 0 THEN 0 ELSE 1 + Depth(tasks[t].parent)

\* C6: a list task created with spawn_from_paginator = false has no list
\* subtask; every pagination task is a child of the root list task, and no
\* task is deeper than 2 below the root.
C6_PaginationOnlyFromRoot ==
    \A t \in DOMAIN tasks :
        /\ (tasks[t].kind = "list" /\ ~tasks[t].spawn_from_paginator) =>
              \A c \in Children(tasks, t) : tasks[c].kind # "list"
        /\ (tasks[t].kind = "list" /\ tasks[t].parent # 0) =>
              /\ tasks[tasks[t].parent].parent = 0
              /\ tasks[tasks[t].parent].kind = "list"
              /\ ~tasks[t].spawn_from_paginator
        /\ Depth(t) <= 2

\* a pagination task read its page, which links to further pages, spawned
\* a detail task and ended
C6_Witness ==
    \E t \in DOMAIN tasks : \E c \in Children(tasks, t) :
        /\ tasks[t].kind = "list" /\ tasks[t].parent # 0
        /\ LastPage >= 2
        /\ tasks[t].res = "ok"
        /\ tasks[c].kind = "detail" /\ Depth(c) = 2

\* C7: no detail task exists for an id whose record in the snapshot loaded
\* at the start of the run has a non-empty composition.
C7_EnrichedNotRefetched ==
    \A t \in DOMAIN tasks :
        tasks[t].kind = "detail" =>
            ~(tasks[t].laptop.id \in DOMAIN laptops
              /\ Enriched(laptops[tasks[t].laptop.id]))

\* a list task found, as the first listing of its page, an id with empty
\* composition whose snapshot record is enriched, spawned nothing and is at
\* the next listing
C7_Witness ==
    \E t \in DOMAIN tasks :
        /\ tasks[t].kind = "list" /\ tasks[t].pc = "items" /\ tasks[t].i = 2
        /\ PageOf(tasks[t].page)[1].composition = <<>>
        /\ PageOf(tasks[t].page)[1].id \in DOMAIN laptops
        /\ Enriched(laptops[PageOf(tasks[t].page)[1].id])
        /\ Children(tasks, t) = {}

\* every id is listed at most once on the site
ListedOnce ==
    \A p, q \in 1..MaxPages : \A i \in DOMAIN site[p] : \A j \in DOMAIN site[q] :
        site[p][i].id = site[q][j].id => (p = q /\ i = j)

\* C8: the second of two complete runs on the same site leaves the table
\* as the first run left it (stated for the runs in which no task failed
\* and every id is listed once).
C8_RerunIdempotent ==
    (run = 2 /\ main_pc = "done" /\ nFail = 0 /\ ListedOnce) => store = prevStore

(***************************************************************************)
(* Claims about the pure functions                                         *)
(***************************************************************************)
\* no candidate scores above zero against any component of the catalog
NoPositiveScore ==
    \A j \in DOMAIN fin : \A k \in 1..MaxCatalog :
        \/ matcher[<<fin[j], MatchCatalog[k].name>>] = None
        \/ matcher[<<fin[j], MatchCatalog[k].name>>][1] <= 0

\* C9: get_best_match returns index 0 for the empty candidate sequence and
\* for every candidate sequence none of whose pairs scores above zero.
C9_SentinelFallback ==
    (fout # <<>> /\ (fin = <<>> \/ NoPositiveScore)) => fout[1] = 0

\* the function was applied to candidates of which one scores exactly zero
\* against a component that is not the sentinel, and none scores higher
C9_Witness ==
    /\ fout # <<>> /\ fin # <<>> /\ NoPositiveScore
    /\ \E j \in DOMAIN fin : \E k \in 2..MaxCatalog :
          matcher[<<fin[j], MatchCatalog[k].name>>] = <<0>>
    /\ fout[1] = 0

\* positions of the separators of a text
SlashAt(s) == {k \in 1..Len(s) : s[k] = "/"}

\* the n-th segment of s is s[SegStart(s, n)..SegEnd(s, n)]
SegStart(s, n) ==
    IF n = 1 THEN 1
    ELSE 1 + CHOOSE k \in SlashAt(s) :
                 Cardinality({q \in SlashAt(s) : q < k}) = n - 2

SegEnd(s, n) ==
    IF n = Cardinality(SlashAt(s)) + 1 THEN Len(s)
    ELSE (CHOOSE k \in SlashAt(s) :
              Cardinality({q \in SlashAt(s) : q < k}) = n - 1) - 1

\* the end of the n-th segment once cut at its first "("
CutEnd(s, n) ==
    LET parens == {k \in SegStart(s, n)..SegEnd(s, n) : s[k] = "("}
    IN IF parens = {} THEN SegEnd(s, n)
       ELSE (CHOOSE k \in parens : \A q \in parens : k <= q) - 1

\* the cut n-th segment without the whitespace at its two ends
Candidate(s, n) ==
    LET solid == {k \in SegStart(s, n)..CutEnd(s, n) : s[k] # " "}
    IN IF solid = {} THEN <<>>
       ELSE SubSeq(s, CHOOSE k \in solid : \A q \in solid : k <= q,
                      CHOOSE k \in solid : \A q \in solid : k >= q)

ExampleDevices ==
    <<
      <<"I", "n", "t", "e", "l", " ", "C", "o", "r", "e", " ", "i",
        "5", "-", "1", "1", "3", "5", "G", "7">>,
      <<"8", "G", "B", " ", "R", "A", "M">>,
      <<"N", "V", "I", "D", "I", "A", " ", "G", "e", "F", "o", "r",
        "c", "e", " ", "M", "X", "3", "5", "0">>
    >>

\* C10: the devices of a composition are its segments between "/", each
\* cut at its first "(" and trimmed, in the original order; the example
\* text gives "Intel Core i5-1135G7", "8GB RAM", "NVIDIA GeForce MX350".
C10_DeviceParsing ==
    fout # <<>> =>
        /\ Len(fout[1]) = Cardinality(SlashAt(fin)) + 1
        /\ \A n \in 1..Len(fout[1]) : fout[1][n] = Candidate(fin, n)
        /\ fin = ExampleText => fout[1] = ExampleDevices

\* the devices of the example text were computed
C10_Witness == fin = ExampleText /\ fout = <<ExampleDevices>>

\* positions of the digits of a text
DigitAt(s) == {k \in DOMAIN s : s[k] \in {"0", "1", "2", "3", "4", "5", "6", "7", "8", "9"}}

RECURSIVE TenTo(_)
TenTo(n) == IF n = 0 THEN 1 ELSE 10 * TenTo(n - 1)

RECURSIVE PlaceSum(_, _)
\* the sum, over the digit positions in ks, of the digit times the power of
\* ten given by the number of digits to its right
PlaceSum(s, ks) ==
    IF ks = {} THEN 0
    ELSE LET k == CHOOSE x \in ks : TRUE
         IN DigitValue[s[k]] * TenTo(Cardinality({q \in DigitAt(s) : q > k}))
            + PlaceSum(s, ks \ {k})

\* C11: the price of a text with at least one digit is the integer its
\* digits write, in order, every other character removed; "23 999" with the
\* currency sign gives 23999.
C11_PriceFromDigits ==
    (fout # <<>> /\ DigitAt(fin) # {}) =>
        /\ fout[1].ok
        /\ fout[1].value = PlaceSum(fin, DigitAt(fin))
        /\ fin = ExamplePrice => fout[1].value = 23999

\* the price of the example text was computed
C11_Witness == fin = ExamplePrice /\ fout = <<[ok |-> TRUE, value |-> 23999]>>

(***************************************************************************)
(* Claims about the crawl, continued                                       *)
(***************************************************************************)
\* task t takes, in this step, the turn of its loop for the listing at its
\* position (listing page or API page) and writes the record
ExtractionStep(t) ==
    /\ Running(t)
    /\ \/ tasks[t].kind = "list" /\ tasks[t].pc = "items"
       \/ tasks[t].kind = "api" /\ tasks[t].pc = "api"
    /\ tasks[t].i <= Len(PageOf(tasks[t].page))
    /\ t \in DOMAIN tasks'
    /\ tasks'[t].i = tasks[t].i + 1

\* the extraction of that listing, with the component ids resolved from its
\* own composition
Incoming(t) ==
    WithIds(Extract(tasks[t].page, tasks[t].i),
            Extract(tasks[t].page, tasks[t].i).composition)

\* C12: the rows of the merge table other than the no-op. An incoming
\* composition, whatever is stored, makes the stored record equal to the
\* extraction; an incoming empty composition inserts the record with no
\* composition when none is stored, and on a stored record without
\* composition overwrites the other fields only.
C12_MergeTable ==
    [][\A t \in DOMAIN tasks : ExtractionStep(t) =>
          LET id == Extract(tasks[t].page, tasks[t].i).id
              incoming == Incoming(t)
          IN /\ id \in DOMAIN store'
             /\ incoming.composition # <<>> => store'[id] = incoming
             /\ (incoming.composition = <<>> /\ id \notin DOMAIN store) =>
                   store'[id] = [incoming EXCEPT !.composition = NULL]
             /\ (incoming.composition = <<>> /\ id \in DOMAIN store
                   /\ ~Enriched(store[id])) =>
                   store'[id] = [incoming EXCEPT
                                    !.composition = store[id].composition]]_vars

\* a list task went through a page that shows the same id twice with a
\* composition: the record carries the image of the second listing
C12_Witness ==
    \E t \in DOMAIN tasks :
        /\ tasks[t].kind = "list" /\ tasks[t].i = 3
        /\ LET l == PageOf(tasks[t].page)
           IN /\ Len(l) = 2 /\ l[1].id = l[2].id
              /\ l[1].composition # <<>> /\ l[2].composition # <<>>
              /\ l[1].id \in DOMAIN store
              /\ store[l[1].id].image = 10 * tasks[t].page + 2

\* C13: no task is cancelled because another task failed: no task is ever
\* aborted, every task runs to its own completion.
C13_NoCancellation ==
    \A t \in DOMAIN tasks : ~tasks[t].abort /\ tasks[t].res # "aborted"

\* C14: main ends with success whichever task failed: it never ends with
\* the failure of a task as its result.
C14_MainSucceeds == main_pc \in {"done", "failed"} => main_pc = "done"

\* main has ended after a benchmark task failed before its first insert
\* and the root task panicked on the empty catalog
C14_Witness ==
    /\ main_pc = "done" /\ nFail = 1
    /\ cpuTable = <<>> \/ gpuTable = <<>>
    /\ tasks[1].res = "panic"

\* C15: a task that has finished, by whatever exit, has left no session
\* open.
C15_SessionClosedOnExit ==
    \A t \in DOMAIN tasks : tasks[t].res # "none" => tasks[t].sess # "open"

\* the ids of the components of a catalog
CatalogIds(table) == {table[k].id : k \in DOMAIN table}

\* no candidate of the stored composition scores above zero against a
\* component of the catalog
NothingMatches(composition, table) ==
    LET devices == Devices(IF composition = NULL THEN <<>> ELSE composition)
    IN \A j \in DOMAIN devices : \A k \in DOMAIN table :
          \/ matcher[<<devices[j], table[k].name>>] = None
          \/ matcher[<<devices[j], table[k].name>>][1] <= 0

\* C16: the cpu id and gpu id of every stored record are ids of the
\* catalogs, and a record whose candidates match no component carries the
\* id 0, whatever the benchmark tasks did.
C16_ComponentIdsExist ==
    \A id \in DOMAIN store :
        /\ store[id].cpu_id \in CatalogIds(cpuTable)
        /\ store[id].gpu_id \in CatalogIds(gpuTable)
        /\ NothingMatches(store[id].composition, cpuTable) => store[id].cpu_id = 0
        /\ NothingMatches(store[id].composition, gpuTable) => store[id].gpu_id = 0

\* the cpu benchmark task failed after the row of id 0: a record with a
\* composition carries cpu id 0 and the id of its graphics adapter
C16_Witness ==
    /\ Len(cpuTable) = 1 /\ Len(gpuTable) = 2
    /\ \E id \in DOMAIN store :
          /\ Enriched(store[id])
          /\ store[id].cpu_id = 0 /\ store[id].gpu_id = 7

(***************************************************************************)
(* Claims about the pure functions, continued                              *)
(***************************************************************************)
\* the scores of the pairs of a candidate and the component at catalog
\* position k (the None pairs have none)
ScoresAt(k) ==
    {matcher[<<fin[j], MatchCatalog[k].name>>][1] :
        j \in {x \in DOMAIN fin : matcher[<<fin[x], MatchCatalog[k].name>>] # None}}

\* the highest score of all pairs
BestScore ==
    CHOOSE b \in UNION {ScoresAt(k) : k \in 1..MaxCatalog} :
        \A c \in UNION {ScoresAt(k) : k \in 1..MaxCatalog} : c <= b

\* C17: when some pair scores above zero, get_best_match returns the index
\* of a component that attains the highest score of all pairs, the lowest
\* such index.
C17_BestMatchLowestIndex ==
    (fout # <<>> /\ ~NoPositiveScore) =>
        /\ fout[1] \in 0..(MaxCatalog - 1)
        /\ BestScore \in ScoresAt(fout[1] + 1)
        /\ \A k \in 1..fout[1] : BestScore \notin ScoresAt(k)

\* the function was applied where two components attain the same highest
\* score above zero, and gave the first of them
C17_Witness ==
    /\ fout # <<>> /\ ~NoPositiveScore
    /\ \E k1, k2 \in 1..MaxCatalog :
          /\ k1 < k2 /\ BestScore \in ScoresAt(k1) /\ BestScore \in ScoresAt(k2)
          /\ \A k \in 1..(k1 - 1) : BestScore \notin ScoresAt(k)
          /\ fout[1] = k1 - 1

(***************************************************************************)
(* Claims about the fan-out                                                *)
(***************************************************************************)
\* the detail tasks the step of task t has added to its JoinSet
NewDetails(t) ==
    {c \in DOMAIN tasks' : /\ c \notin DOMAIN tasks
                           /\ tasks'[c].kind = "detail"
                           /\ tasks'[c].parent = t}

\* C18: a list task and an api task, at every listing they extract, spawn
\* exactly one detail task for it when its composition is empty and the
\* record the task knows of that id is absent or not enriched, and none
\* when its composition is not empty.
C18_DetailFanOut ==
    [][\A t \in DOMAIN tasks : ExtractionStep(t) =>
          LET r == Extract(tasks[t].page, tasks[t].i)
          IN /\ r.composition # <<>> => NewDetails(t) = {}
             /\ (r.composition = <<>>
                   /\ (r.id \in DOMAIN laptops => ~Enriched(laptops[r.id]))) =>
                   /\ Cardinality(NewDetails(t)) = 1
                   /\ \A c \in NewDetails(t) : tasks'[c].laptop.id = r.id]_vars

\* the list tasks in the JoinSet of task t
ListChildren(t) == {c \in Children(tasks, t) : tasks[c].kind = "list"}

\* the highest page number among the pagination links, 0 when there is none
HighestLink ==
    IF PaginationLinks = <<>> THEN 0
    ELSE CHOOSE n \in {PaginationLinks[k] : k \in DOMAIN PaginationLinks} :
            \A k \in DOMAIN PaginationLinks : PaginationLinks[k] <= n

\* task t is a root list task that spawns from the paginator and has gone
\* through its pagination step
Paginated(t) ==
    /\ tasks[t].kind = "list" /\ tasks[t].parent = 0
    /\ tasks[t].spawn_from_paginator
    /\ tasks[t].pc \notin {"acquire", "open", "items", "paginate"}

\* C19: a root list task that spawns from the paginator has, once past its
\* pagination step, exactly one list subtask for each page from 2 to the
\* highest page number of the pagination links, each created with the flag
\* off, and no other list subtask; none at all when that number is at most 1.
C19_PaginationFanOut ==
    \A t \in DOMAIN tasks : Paginated(t) =>
        /\ \A p \in 2..HighestLink :
              Cardinality({c \in ListChildren(t) : tasks[c].page = p}) = 1
        /\ \A c \in ListChildren(t) :
              tasks[c].page \in 2..HighestLink /\ ~tasks[c].spawn_from_paginator
        /\ HighestLink <= 1 => ListChildren(t) = {}

\* a root list task on a site of two pages is past its pagination step and
\* has the list subtask of page 2
C19_Witness ==
    \E t \in DOMAIN tasks :
        /\ Paginated(t) /\ HighestLink = 2
        /\ \E c \in ListChildren(t) : tasks[c].page = 2

(***************************************************************************)
(* Claims about the wait                                                   *)
(***************************************************************************)
\* C20: whatever counts the successive queries return, the wait loop is
\* left only after at least two queries, the last two of which returned the
\* same count, and that count is not zero.
C20_WaitStabilized ==
    (fout # <<>> /\ fout[1].left) =>
        /\ fout[1].queries >= 2
        /\ fin[fout[1].queries] = fin[fout[1].queries - 1]
        /\ fin[fout[1].queries] # 0

\* the loop was left at the fourth query, after an empty page and a count
\* that changed
C20_Witness ==
    /\ fout # <<>> /\ fout[1].left /\ fout[1].queries = 4
    /\ fin[1] = 0 /\ fin[2] # 0 /\ fin[2] # fin[3]

(***************************************************************************)
(* Claims about the composition text                                       *)
(***************************************************************************)
\* no selector of the chain finds its element, in any of the finds made
CompositionMissing ==
    \A s \in DOMAIN fin[1].finds : \A k \in 1..(Retries + 1) : ~fin[1].finds[s][k]

\* C21: when the composition element is still missing after the retries, on
\* a listing page and on a product page alike, the composition is the empty
\* text and the task goes on.
C21_MissingCompositionIsEmpty ==
    (fout # <<>> /\ CompositionMissing) =>
        fout[1] = [res |-> "ok", composition |-> <<>>]

(***************************************************************************)
(* Claims about failures                                                   *)
(***************************************************************************)
\* running task t is at a listing whose price cannot be read: the text of
\* the price element has no digit, the "price" member is no integer
AtUnreadablePrice(t) ==
    /\ Running(t)
    /\ \/ tasks[t].kind = "list" /\ tasks[t].pc = "items"
       \/ tasks[t].kind = "api" /\ tasks[t].pc = "api"
    /\ tasks[t].i <= Len(PageOf(tasks[t].page))
    /\ LET text == PageOf(tasks[t].page)[tasks[t].i].price
       IN IF tasks[t].kind = "list"
          THEN \A k \in DOMAIN text : text[k] \notin DOMAIN DigitValue
          ELSE \E k \in DOMAIN text : text[k] \notin DOMAIN DigitValue

\* C22: a task at a listing whose price cannot be read goes no further: it
\* ends, and only as failed, and the step that ends it writes no record.
C22_UnreadablePriceFails ==
    [][\A t \in DOMAIN tasks : (AtUnreadablePrice(t) /\ t \in DOMAIN tasks') =>
          /\ tasks'[t].i = tasks[t].i /\ tasks'[t].pc = tasks[t].pc
          /\ tasks'[t].res \in {"none", "err", "panic"}
          /\ tasks'[t].res # "none" => store' = store]_vars

\* a list task has ended with an error at a listing whose price text has no
\* digit, and the table has no record of that listing
C22_Witness ==
    \E t \in DOMAIN tasks :
        /\ tasks[t].kind = "list" /\ tasks[t].pc = "items"
        /\ tasks[t].res = "err" /\ nFail = 0
        /\ PageOf(tasks[t].page)[tasks[t].i].price = <<"hryvnia">>
        /\ PageOf(tasks[t].page)[tasks[t].i].id \notin DOMAIN store

(***************************************************************************)
(* Claims about main                                                       *)
(***************************************************************************)
BenchKinds == {"cpu_bench", "gpu_bench"}

\* the tasks of kind `kind` in the JoinSet of main
TasksOfKind(kind) == {t \in DOMAIN tasks : tasks[t].kind = kind}

\* C23: while main joins the benchmark tasks there is one benchmark task
\* for a catalog exactly when that catalog loaded empty; a benchmark task
\* exists only then; and whenever a task of the crawl exists, no benchmark
\* task is left and main's catalogs are what the tables hold.
C23_BootstrapOrder ==
    /\ main_pc = "join_bench" =>
          /\ Cardinality(TasksOfKind("cpu_bench")) = IF main_cpus = <<>> THEN 1 ELSE 0
          /\ Cardinality(TasksOfKind("gpu_bench")) = IF main_gpus = <<>> THEN 1 ELSE 0
    /\ (\E t \in DOMAIN tasks : tasks[t].kind \in BenchKinds) => main_pc = "join_bench"
    /\ (\E t \in DOMAIN tasks : tasks[t].kind \notin BenchKinds) =>
          /\ \A u \in DOMAIN tasks : tasks[u].kind \notin BenchKinds
          /\ main_cpus = cpuTable /\ main_gpus = gpuTable

\* the root task runs with the one row a failed gpu benchmark task left in
\* the table, read again after that task had ended, and the complete cpu
\* catalog
C23_Witness ==
    /\ main_pc = "join_root" /\ run = 1 /\ nFail = 1
    /\ Len(gpuTable) = 1 /\ main_gpus = gpuTable /\ main_cpus = Cpus
    /\ tasks # <<>> /\ tasks[1].kind = "api" /\ tasks[1].sess = "open"

\* list task t has closed its window (line 493): the work on its own page
\* is done, what is left is the join loop and the closes of line 545-546
PageDone(t) ==
    tasks[t].kind = "list" /\ tasks[t].pc \in {"join", "final", "end"}

\* C24: a list task that is done with its own page ends only when every
\* task it spawned has ended, and ends with success whatever those tasks
\* ended with; only a failure of its own closes (line 545-546) gives it
\* another result.
C24_Completion ==
    \A t \in DOMAIN tasks : PageDone(t) =>
        /\ tasks[t].res # "none" => \A c \in Children(tasks, t) : tasks[c].res # "none"
        /\ \/ tasks[t].res \in {"none", "ok"}
           \/ tasks[t].res = "err" /\ tasks[t].pc = "final"

(***************************************************************************)
(* Claims about the merge                                                  *)
(***************************************************************************)
\* C25: of two extractions of one listing, one without and one with a
\* composition, the table holds the same record after both were written,
\* whichever was written first.
C25_MergeOrderIndependent ==
    fout # <<>> =>
        /\ fout[1] = EmptyThenPresent(fin[1].st, fin[1].e, fin[1].n)
        /\ fout[1] = PresentThenEmpty(fin[1].st, fin[1].e, fin[1].n)

(***************************************************************************)
(* Claims about the pool                                                   *)
(***************************************************************************)
\* the tasks that hold a permit
Holders == {t \in DOMAIN tasks : tasks[t].permit}

\* C26: the permits held and the permits free add up to the limit; a task
\* that waits for its permit holds none and has no session, a task that
\* opens its session holds one, and a task that has ended, by whatever
\* exit, holds none.
C26_SlotConservation ==
    /\ permits + Cardinality(Holders) = limit
    /\ \A t \in DOMAIN tasks :
          /\ tasks[t].pc = "acquire" => ~tasks[t].permit /\ tasks[t].sess = "none"
          /\ (tasks[t].pc = "open" /\ tasks[t].res = "none") => tasks[t].permit
          /\ tasks[t].sess # "none" => tasks[t].pc # "acquire"
          /\ tasks[t].res # "none" => ~tasks[t].permit

\* a task was cancelled and another has ended with an error, both after
\* they had acquired their permits, while a third task holds a permit
C26_Witness ==
    \E t, u, v \in DOMAIN tasks :
        /\ tasks[t].res = "aborted" /\ tasks[t].pc # "acquire"
        /\ tasks[u].res = "err" /\ tasks[u].pc # "acquire"
        /\ tasks[v].permit /\ permits = limit - 1

(***************************************************************************)
(* Claims about the API crawl                                              *)
(***************************************************************************)
\* the two requests of page p: the page, then the details of all its ids
PageRequests(p) ==
    <<[request |-> "get", page |-> p, product_ids |-> <<>>],
      [request |-> "getDetails", page |-> p,
       product_ids |-> [k \in DOMAIN site[p] |-> site[p][k].id]]>>

\* the requests of the pages p..last, page by page
RECURSIVE RequestsFrom(_, _)
RequestsFrom(p, last) ==
    IF p > last THEN <<>> ELSE PageRequests(p) \o RequestsFrom(p + 1, last)

\* what the site reports as its number of pages, 0 when it reports none
ReportedPages ==
    IF \A p \in 1..MaxPages : site[p] = <<>> THEN 0
    ELSE CHOOSE n \in 1..MaxPages :
            site[n] # <<>> /\ \A p \in (n + 1)..MaxPages : site[p] = <<>>

\* the requests of a complete crawl: page 1, then the pages 2..total_pages
AllRequests == PageRequests(1) \o RequestsFrom(2, ReportedPages)

\* C27: the requests the api task has sent are always the first requests of
\* this list: page 1 and the details of all its ids, then the same for each
\* page 2..total_pages in ascending order; they are the whole list when the
\* task has ended with success; and the task sends them holding its permit,
\* in the one session it opened.
C27_ApiPaging ==
    /\ Len(requests) <= Len(AllRequests)
    /\ requests = SubSeq(AllRequests, 1, Len(requests))
    /\ \A t \in DOMAIN tasks : tasks[t].kind = "api" =>
          /\ tasks[t].res = "ok" => requests = AllRequests
          /\ (tasks[t].res = "none" /\ tasks[t].pc \in ApiPcs) =>
                tasks[t].permit /\ tasks[t].sess = "open"
          /\ requests # <<>> => tasks[t].pc \notin {"acquire", "open"}

\* the api task has ended with success on a site of two pages with a
\* listing each: four requests were sent, the last for the id of page 2
C27_Witness ==
    /\ tasks # <<>> /\ tasks[1].kind = "api" /\ tasks[1].res = "ok"
    /\ Len(requests) = 4
    /\ requests[4].page = 2 /\ Len(requests[4].product_ids) = 1

(***************************************************************************)
(* Claims about the ranking view                                           *)
(***************************************************************************)
\* the score the specification gives a record of the answer
ExpectedScore(laptop) ==
    TruncDiv(laptop.cpu_score * fin[1].params.cpu, max_scores(fin[1].laptops)[1])
    + TruncDiv(laptop.gpu_score * fin[1].params.gpu, max_scores(fin[1].laptops)[2])

\* C28: for every set of records and all weights the view answers with a
\* list in which each record has the score
\* cpuScore*cpuWeight/maxCpuScore + gpuScore*gpuWeight/maxGpuScore and the
\* records follow each other by non-decreasing price*1000/(score+1).
C28_RankingOrder ==
    fout # <<>> =>
        /\ fout[1].res = "ok"
        /\ \A k \in DOMAIN fout[1].laptops :
              fout[1].laptops[k].total_score = ExpectedScore(fout[1].laptops[k].laptop)
        /\ \A k \in 1..(Len(fout[1].laptops) - 1) :
              TruncDiv(fout[1].laptops[k].laptop.price * 1000,
                       fout[1].laptops[k].total_score + 1)
              <= TruncDiv(fout[1].laptops[k + 1].laptop.price * 1000,
                          fout[1].laptops[k + 1].total_score + 1)

\* C29: for every set of one record at least and all weights, the view
\* never divides by zero.
C29_NoDivisionByZero == fout # <<>> => fout[1].res # "divide_by_zero"

====
